---- MODULE Spec2Model ----
(***************************************************************************)
(* Verification model of the halo2-intro gadgets:                          *)
(*   example4  polynomial range check                                      *)
(*   example5  range check with a flat lookup table                        *)
(*   example6  range check with a bit-length tagged lookup table           *)
(*   example3  f(a, b, c) = if a == b {c} else {a - b} on top of IsZero    *)
(*                                                                         *)
(* The circuits are written against the halo2_proofs API (constraint       *)
(* system, layouter, MockProver).  That library and the is_zero module are *)
(* not part of the sources modelled here; they are modelled from the       *)
(* specification's description of the constraint engine (sections 4.1-4.7).*)
(* The field is a prime field just large enough to hold every table value  *)
(* and the first out-of-range value; the Pasta field of the tests is a     *)
(* prime field as well, and only field axioms are used.                    *)
(***************************************************************************)
EXTENDS Integers, Sequences, FiniteSets, TLC

VARIABLES
    pc,        \* position of the test harness: "new", "calls", "done",
               \* "verified", "configured", "panicked", "error"
    circuit,   \* the circuit struct under test (its witness inputs)
    layouter,  \* what synthesis has laid out so far:
               \*   regions   regions opened; region i occupies row i-1
               \*   table     rows of the lookup table, in offset order
               \*   writes    number of table.assign_cell calls
               \*   offset    the running offset of the assign_table closure
               \*   loads     number of table.load calls
               \*   panicked  an assertion of the gadget failed
               \*   error     an assignment returned Err (propagated by ?)
    failures,  \* MockProver::verify report (a set of VerifyFailure records)
    meta       \* the constraint system built by configure

vars == <<pc, circuit, layouter, failures, meta>>

---------------------------------------------------------------------------
(* Program constants (const generics as instantiated by the tests).        *)

RANGE == 8

LOOKUP_RANGE == 256

LOOKUP_NUMBITS == 8

---------------------------------------------------------------------------
(* Model bounds.                                                           *)

\* Largest number of assign calls (regions) explored in one synthesis.
MaxRegions == 2

\* Largest number of table.load calls explored in one synthesis.
MaxLoads == 2

\* Largest NUM_BITS with which the tiered table is instantiated.
MaxNumBits == 5

---------------------------------------------------------------------------
(* Field arithmetic (FieldExt): a prime field.                             *)

IsPrime(p) ==
    p > 1 /\ \A d \in 2..(p - 1) : p % d # 0

LeastPrimeAbove(n) ==
    CHOOSE p \in (n + 1)..(2 * n + 2) :
        IsPrime(p) /\ \A q \in (n + 1)..(p - 1) : ~IsPrime(q)

Modulus == LeastPrimeAbove(LOOKUP_RANGE)

Field == 0..(Modulus - 1)

FFrom(n) == n % Modulus

FAdd(x, y) == (x + y) % Modulus

FNeg(x) == (Modulus - x) % Modulus

FSub(x, y) == FAdd(x, FNeg(y))

FMul(x, y) == (x * y) % Modulus

\* invert().unwrap_or(F::zero())
FInvertOrZero(x) ==
    IF x = 0 THEN 0 ELSE CHOOSE y \in Field : FMul(x, y) = 1


---------------------------------------------------------------------------
(* Expression engine: immutable trees over constants, selector queries and *)
(* advice queries at the current rotation, with sum, product, negation.    *)

Constant(c) == [op |-> "Constant", v |-> c]

query_selector(s) == [op |-> "Selector", s |-> s]

query_advice(col) == [op |-> "Advice", col |-> col]

Negated(e) == [op |-> "Negated", e |-> e]

Sum(l, r) == [op |-> "Sum", l |-> l, r |-> r]

Product(l, r) == [op |-> "Product", l |-> l, r |-> r]

\* Expression subtraction a - b builds Sum(a, Negated(b)).
Sub(l, r) == Sum(l, Negated(r))

\* A region holds one row (every assignment in these circuits is at offset 0):
\* its diagnostic name, the selectors enabled on the row, the advice cells
\* written on the row (column name -> value).
NewRegion(name) ==
    [name |-> name, selectors |-> {}, cells |-> << >>, error |-> FALSE]

\* Selector::enable(region, 0)
enable(region, s) ==
    IF region.error THEN region ELSE [region EXCEPT !.selectors = @ \cup {s}]

IsAssigned(region, col) == \E i \in DOMAIN region.cells : region.cells[i][1] = col

\* region.assign_advice(column, 0, value)?: a cell is written at most once;
\* writing it again is an assignment error, and after an error the closure
\* has returned.
assign_advice(region, col, v) ==
    IF region.error
    THEN region
    ELSE IF IsAssigned(region, col)
         THEN [region EXCEPT !.error = TRUE]
         ELSE [region EXCEPT !.cells = Append(@, <<col, v>>)]

\* The prover reads an unassigned advice cell as zero.
CellValue(region, col) ==
    IF IsAssigned(region, col)
    THEN LET i == CHOOSE j \in DOMAIN region.cells : region.cells[j][1] = col
         IN  region.cells[i][2]
    ELSE 0

RECURSIVE Eval(_, _)
Eval(e, region) ==
    CASE e.op = "Constant" -> e.v
      [] e.op = "Selector" -> IF e.s \in region.selectors THEN 1 ELSE 0
      [] e.op = "Advice"   -> CellValue(region, e.col)
      [] e.op = "Negated"  -> FNeg(Eval(e.e, region))
      [] e.op = "Sum"      -> FAdd(Eval(e.l, region), Eval(e.r, region))
      [] e.op = "Product"  -> FMul(Eval(e.l, region), Eval(e.r, region))

RECURSIVE QueriedAdvice(_)
QueriedAdvice(e) ==
    CASE e.op = "Constant" -> {}
      [] e.op = "Selector" -> {}
      [] e.op = "Advice"   -> {e.col}
      [] e.op = "Negated"  -> QueriedAdvice(e.e)
      [] e.op = "Sum"      -> QueriedAdvice(e.l) \cup QueriedAdvice(e.r)
      [] e.op = "Product"  -> QueriedAdvice(e.l) \cup QueriedAdvice(e.r)

RECURSIVE QueriedSelectors(_)
QueriedSelectors(e) ==
    CASE e.op = "Constant" -> {}
      [] e.op = "Selector" -> {e.s}
      [] e.op = "Advice"   -> {}
      [] e.op = "Negated"  -> QueriedSelectors(e.e)
      [] e.op = "Sum"      -> QueriedSelectors(e.l) \cup QueriedSelectors(e.r)
      [] e.op = "Product"  -> QueriedSelectors(e.l) \cup QueriedSelectors(e.r)

\* Constraints::with_selector multiplies every constraint by the selector.
with_selector(selector, polys) ==
    [i \in DOMAIN polys |-> Product(selector, polys[i])]

create_gate(name, polys) == [name |-> name, polys |-> polys]

---------------------------------------------------------------------------
(* Satisfiability checker (MockProver::verify).  Row r < Len(regions) is   *)
(* the row of region r+1; row Len(regions) stands for every unused row.    *)

RowAt(rs, r) == IF r < Len(rs) THEN rs[r + 1] ELSE NewRegion("")

Rows(rs) == 0..Len(rs)

Failure(kind, name, index, column, row) ==
    [kind |-> kind, name |-> name, index |-> index, column |-> column, row |-> row]

\* A polynomial of a gate that does not evaluate to zero on a row.
GateFailures(gates, rs) ==
    UNION { UNION { { Failure("ConstraintNotSatisfied", gates[g].name, i - 1, "", r) :
                        r \in { q \in Rows(rs) :
                                  Eval(gates[g].polys[i], RowAt(rs, q)) # 0 } } :
                    i \in DOMAIN gates[g].polys } :
            g \in DOMAIN gates }

\* A cell queried by a gate whose selector is enabled on the row, but which
\* the region never assigned.
CellFailures(gates, rs) ==
    UNION { UNION { UNION { { Failure("CellNotAssigned", gates[g].name, i - 1, c, r) :
                                r \in { q \in Rows(rs) :
                                          /\ QueriedSelectors(gates[g].polys[i])
                                                \cap RowAt(rs, q).selectors # {}
                                          /\ ~IsAssigned(RowAt(rs, q), c) } } :
                            c \in QueriedAdvice(gates[g].polys[i]) } :
                    i \in DOMAIN gates[g].polys } :
            g \in DOMAIN gates }

\* Tuples of the table columns a lookup names, over every row of the table
\* columns: the rows written by load, the remaining rows filled with the
\* first row (an unloaded fixed column reads as zero everywhere).
TableTuples(lookup, tbl) ==
    IF tbl = << >>
    THEN { [j \in DOMAIN lookup |-> 0] }
    ELSE { [j \in DOMAIN lookup |-> tbl[i][lookup[j].table]] : i \in DOMAIN tbl }

InputTuple(lookup, region) ==
    [j \in DOMAIN lookup |-> Eval(lookup[j].input, region)]

LookupFailures(lookups, rs, tbl) ==
    UNION { { Failure("Lookup", "lookup", l - 1, "", r) :
                r \in { q \in Rows(rs) :
                          InputTuple(lookups[l], RowAt(rs, q))
                              \notin TableTuples(lookups[l], tbl) } } :
            l \in DOMAIN lookups }

verify(cs, lay) ==
    GateFailures(cs.gates, lay.regions) \cup CellFailures(cs.gates, lay.regions)
        \cup LookupFailures(cs.lookups, lay.regions, lay.table)

\* The layouter before synthesis.
NewLayouter ==
    [regions |-> << >>, table |-> << >>, writes |-> 0, offset |-> 0,
     loads |-> 0, panicked |-> FALSE, error |-> FALSE]

\* Where the harness stands after a step of synthesis: a failed assertion
\* aborts it, an Err makes MockProver::run(..).unwrap() abort it.
After(lay, next) ==
    IF lay.panicked THEN "panicked" ELSE IF lay.error THEN "error" ELSE next

\* layouter.assign_region(name, f): run f on a fresh region and lay it out
\* on the next free row.
assign_region(lay, region) ==
    IF region.error
    THEN [lay EXCEPT !.error = TRUE]
    ELSE [lay EXCEPT !.regions = Append(@, region)]

\* table.assign_cell(column, offset, value) inside assign_table.
\* A table cell is written at most once; writing it again is an error.
table_assign_cell(lay, col, offset, v) ==
    IF offset < Len(lay.table) /\ col \in DOMAIN lay.table[offset + 1]
    THEN [lay EXCEPT !.error = TRUE, !.writes = @ + 1]
    ELSE [lay EXCEPT
            !.table = IF offset < Len(@)
                      THEN [@ EXCEPT ![offset + 1] = (col :> v) @@ @]
                      ELSE Append(@, (col :> v)),
            !.writes = @ + 1]

---------------------------------------------------------------------------
(* example4: polynomial range check.                                       *)

\* The closure range_check: the fold over 0..range starts from value and
\* multiplies by (i - value) for every i.
RECURSIVE range_check_fold(_, _, _, _)
range_check_fold(i, range, value, expr) ==
    IF i >= range
    THEN expr
    ELSE range_check_fold(i + 1, range, value,
                          Product(expr, Sub(Constant(FFrom(i)), value)))

\* Mutants of range_check: a fold over 0..=range, and a fold over 0..range-1.
range_check_inclusive(range, value) ==
    range_check_fold(0, range + 1, value, value)

range_check_short(range, value) ==
    range_check_fold(0, range - 1, value, value)

range_check(range, value) ==
    range_check_fold(0, range, value, value)

\* RangeCheckConfig::configure of example4: one gate under q_range_check.
configure4 ==
    [gates |->
        << create_gate("range check",
               with_selector(query_selector("q_range_check"),
                             << range_check(RANGE, query_advice("value")) >>)) >>,
     lookups |-> << >>]

\* RangeCheckConfig::assign of example4: a new region, q_range_check enabled
\* and the value written at offset 0.
assign4(lay, value) ==
    assign_region(lay,
        assign_advice(enable(NewRegion("Assign value"), "q_range_check"),
                      "value", value))

\* MyCircuit::synthesize of example4.
synthesize4(c) == assign4(NewLayouter, c.value)

Init4 ==
    /\ pc = "new"
    /\ circuit \in [value : Field]
    /\ layouter = NewLayouter
    /\ failures = {}
    /\ meta = configure4

\* MockProver::run: synthesize the circuit.
Synthesize4 ==
    /\ pc = "new"
    /\ layouter' = synthesize4(circuit)
    /\ pc' = After(layouter', "done")
    /\ UNCHANGED <<circuit, failures, meta>>

\* MockProver::verify.
Verify4 ==
    /\ pc = "done"
    /\ failures' = verify(configure4, layouter)
    /\ pc' = "verified"
    /\ UNCHANGED <<circuit, layouter, meta>>

Next4 == Synthesize4 \/ Verify4

Spec4 == Init4 /\ [][Next4]_vars

\* C1: polynomial range check, soundness: once verified, a circuit whose
\* value lies outside {0, ..., RANGE-1} (in particular value = RANGE) has a
\* non-empty report: the "range check" constraint is not satisfied on row 0.
C1_PolynomialSoundness ==
    (pc = "verified" /\ circuit.value \notin 0..(RANGE - 1))
        => Failure("ConstraintNotSatisfied", "range check", 0, "", 0) \in failures

C1_Witness ==
    /\ pc = "verified"
    /\ circuit.value = RANGE
    /\ failures # {}

\* C2: polynomial range check, completeness: once verified, a circuit whose
\* value lies in {0, ..., RANGE-1}, with q_range_check enabled and the value
\* written on row 0, has an empty violation report.
C2_PolynomialCompleteness ==
    (pc = "verified" /\ circuit.value \in 0..(RANGE - 1)) =>
        /\ Len(layouter.regions) = 1
        /\ layouter.regions[1].selectors = {"q_range_check"}
        /\ layouter.regions[1].cells = << <<"value", circuit.value>> >>
        /\ failures = {}

C2_Witness ==
    /\ pc = "verified"
    /\ circuit.value = RANGE - 1
    /\ failures = {}

---------------------------------------------------------------------------
(* example5: range check by polynomial gate or by a flat lookup table.     *)

\* Claimed ranges passed to assign: below the threshold, at the threshold,
\* at the table capacity, above the table capacity.
Ranges == {RANGE - 1, RANGE, LOOKUP_RANGE, LOOKUP_RANGE + 1}

\* The large_value field of the circuit structs.
LargeValues == {FFrom(RANGE), FFrom(LOOKUP_RANGE)}

\* One iteration of the loop of RangeCheckTable::load (example5/table.rs):
\* write F::from(i) at the running offset, then advance the offset.
load5_body(lay, i) ==
    LET written == table_assign_cell(lay, "value", lay.offset, FFrom(i))
    IN  IF written.error
        THEN written
        ELSE [written EXCEPT !.offset = @ + 1]

\* The iterations lo..hi-1 of "for i in 0..RANGE", in order, returning at
\* once on Err; the range is halved only to keep the evaluation shallow.
RECURSIVE load5_loop(_, _, _)
load5_loop(lo, hi, lay) ==
    IF lo >= hi
    THEN lay
    ELSE IF hi = lo + 1
         THEN load5_body(lay, lo)
         ELSE LET mid  == (lo + hi) \div 2
                  left == load5_loop(lo, mid, lay)
              IN  IF left.error THEN left ELSE load5_loop(mid, hi, left)

\* Mutant of load5: the loop runs over 0..=RANGE, one row too many.
load5_inclusive(lay) ==
    [load5_loop(0, LOOKUP_RANGE + 1, [lay EXCEPT !.offset = 0])
        EXCEPT !.loads = @ + 1]

\* Mutant of load5: the values start at 1 (F::from(i + 1) at offset i).
RECURSIVE load5_loop_from_one(_, _, _)
load5_loop_from_one(lo, hi, lay) ==
    IF lo >= hi
    THEN lay
    ELSE IF hi = lo + 1
         THEN load5_body(lay, lo + 1)
         ELSE LET mid  == (lo + hi) \div 2
                  left == load5_loop_from_one(lo, mid, lay)
              IN  IF left.error THEN left ELSE load5_loop_from_one(mid, hi, left)

load5_from_one(lay) ==
    [load5_loop_from_one(0, LOOKUP_RANGE, [lay EXCEPT !.offset = 0])
        EXCEPT !.loads = @ + 1]

\* RangeCheckTable::load of example5/table.rs: offset = 0, then the loop.
load5(lay) ==
    [load5_loop(0, LOOKUP_RANGE, [lay EXCEPT !.offset = 0])
        EXCEPT !.loads = @ + 1]

\* RangeCheckConfig::configure of example5: the polynomial gate under
\* q_range_check and the lookup of q_lookup * value in the table column.
configure5 ==
    [gates |->
        << create_gate("range check",
               with_selector(query_selector("q_range_check"),
                             << range_check(RANGE, query_advice("value")) >>)) >>,
     lookups |->
        << << [input |-> Product(query_selector("q_lookup"), query_advice("value")),
               table |-> "value"] >> >>]

\* Mutant of assign5: the threshold test is range <= RANGE.
assign5_le(lay, value, range) ==
    IF ~(range <= LOOKUP_RANGE)
    THEN [lay EXCEPT !.panicked = TRUE]
    ELSE IF range <= RANGE
         THEN assign_region(lay,
                  assign_advice(enable(NewRegion("Assign value"), "q_range_check"),
                                "value", value))
         ELSE assign_region(lay,
                  assign_advice(enable(NewRegion("Assign value for lookup range check"),
                                       "q_lookup"),
                                "value", value))

\* RangeCheckConfig::assign of example5.
assign5(lay, value, range) ==
    IF ~(range <= LOOKUP_RANGE)
    THEN [lay EXCEPT !.panicked = TRUE]
    ELSE IF range < RANGE
         THEN assign_region(lay,
                  assign_advice(enable(NewRegion("Assign value"), "q_range_check"),
                                "value", value))
         ELSE assign_region(lay,
                  assign_advice(enable(NewRegion("Assign value for lookup range check"),
                                       "q_lookup"),
                                "value", value))

\* Mutant of synthesize5: the call of table.load is missing.
synthesize5_no_load(c) ==
    assign5(assign5(NewLayouter, c.value, RANGE), c.value, LOOKUP_RANGE)

\* MyCircuit::synthesize of example5: both calls pass self.value.
synthesize5(c) ==
    load5(assign5(assign5(NewLayouter, c.value, RANGE), c.value, LOOKUP_RANGE))

Init5 ==
    /\ pc = "new"
    /\ circuit \in [value : Field, large_value : LargeValues]
    /\ layouter = NewLayouter
    /\ failures = {}
    /\ meta = configure5

\* MockProver::run on MyCircuit.
Synthesize5 ==
    /\ pc = "new"
    /\ layouter' = synthesize5(circuit)
    /\ pc' = After(layouter', "done")
    /\ UNCHANGED <<circuit, failures, meta>>

\* A synthesis that calls assign with a claimed range of its own choice.
Assign5 ==
    /\ pc \in {"new", "calls"}
    /\ Len(layouter.regions) < MaxRegions
    /\ \E range \in Ranges :
          layouter' = assign5(layouter, circuit.value, range)
    /\ pc' = After(layouter', "calls")
    /\ UNCHANGED <<circuit, failures, meta>>

\* A synthesis that loads the table at a point of its own choice.
Load5 ==
    /\ pc \in {"new", "calls"}
    /\ layouter.loads < MaxLoads
    /\ layouter' = load5(layouter)
    /\ pc' = After(layouter', "calls")
    /\ UNCHANGED <<circuit, failures, meta>>

Verify5 ==
    /\ pc \in {"calls", "done"}
    /\ failures' = verify(configure5, layouter)
    /\ pc' = "verified"
    /\ UNCHANGED <<circuit, layouter, meta>>

Next5 == Synthesize5 \/ Assign5 \/ Load5 \/ Verify5

Spec5 == Init5 /\ [][Next5]_vars

\* Rows (0-based) of the regions on which a selector is enabled.
RowsWith(selector) ==
    { r \in 0..(Len(layouter.regions) - 1) :
        selector \in layouter.regions[r + 1].selectors }

\* C3: flat-lookup range check: once the table is loaded and the circuit is
\* verified, a row with q_lookup enabled is reported as a lookup violation
\* exactly when its value lies outside {0, ..., LOOKUP_RANGE-1}; a circuit all
\* of whose rows went through the lookup branch passes exactly when its values
\* lie in that range, and fails for the value LOOKUP_RANGE.
C3_FlatLookup ==
    (pc = "verified" /\ layouter.loads = 1) =>
        /\ \A r \in RowsWith("q_lookup") :
              (Failure("Lookup", "lookup", 0, "", r) \in failures)
                 <=> (CellValue(layouter.regions[r + 1], "value")
                         \notin 0..(LOOKUP_RANGE - 1))
        /\ (RowsWith("q_lookup") = 0..(Len(layouter.regions) - 1)) =>
              ((failures = {}) <=>
                  \A r \in RowsWith("q_lookup") :
                      CellValue(layouter.regions[r + 1], "value")
                          \in 0..(LOOKUP_RANGE - 1))

C3_Witness ==
    /\ pc = "verified"
    /\ layouter.loads = 1
    /\ RowsWith("q_lookup") # {}
    /\ \A r \in RowsWith("q_lookup") :
          /\ CellValue(layouter.regions[r + 1], "value") = LOOKUP_RANGE
          /\ Failure("Lookup", "lookup", 0, "", r) \in failures

\* C8: flat table contents: after load the table column holds value i at
\* offset i for every i in 0..LOOKUP_RANGE, exactly LOOKUP_RANGE cells were
\* written (so every offset once), and the table values are exactly
\* {0, ..., LOOKUP_RANGE-1}.
C8_FlatTableContents ==
    (layouter.loads = 1) =>
        /\ ~layouter.error
        /\ Len(layouter.table) = LOOKUP_RANGE
        /\ layouter.writes = LOOKUP_RANGE
        /\ \A i \in 0..(LOOKUP_RANGE - 1) :
              /\ DOMAIN layouter.table[i + 1] = {"value"}
              /\ layouter.table[i + 1]["value"] = i
        /\ { layouter.table[i]["value"] : i \in DOMAIN layouter.table }
              = 0..(LOOKUP_RANGE - 1)

C8_Witness ==
    /\ layouter.loads = 1
    /\ Len(layouter.table) = LOOKUP_RANGE
    /\ layouter.table[LOOKUP_RANGE]["value"] = LOOKUP_RANGE - 1

\* C20: the bound the flat-lookup gadget enforces: if the check passes
\* after assign calls and load, every value on a row of the polynomial
\* variant (range < RANGE) lies in 0..RANGE-1 and every value on a row of
\* the lookup variant (range >= RANGE, whatever the claimed range) lies in
\* 0..LOOKUP_RANGE-1; every row without q_lookup, the unused rows included,
\* contributes the lookup input 0, which is the table's row 0.
C20_EnforcedBound ==
    (pc = "verified" /\ layouter.loads = 1 /\ failures = {}) =>
        /\ \A r \in RowsWith("q_range_check") :
              CellValue(layouter.regions[r + 1], "value") \in 0..(RANGE - 1)
        /\ \A r \in RowsWith("q_lookup") :
              CellValue(layouter.regions[r + 1], "value")
                  \in 0..(LOOKUP_RANGE - 1)
        /\ RowsWith("q_range_check") \cup RowsWith("q_lookup")
              = 0..(Len(layouter.regions) - 1)
        /\ \A r \in Rows(layouter.regions) :
              ("q_lookup" \notin RowAt(layouter.regions, r).selectors) =>
                  /\ InputTuple(configure5.lookups[1], RowAt(layouter.regions, r))
                        = <<0>>
                  /\ layouter.table[1]["value"] = 0

C20_Witness ==
    /\ pc = "verified"
    /\ layouter.loads = 1
    /\ failures = {}
    /\ circuit.value = LOOKUP_RANGE - 1
    /\ RowsWith("q_lookup") = {0, 1}

---------------------------------------------------------------------------
(* example6: range check with a lookup table tagged by bit-length.         *)

\* 1 << n
Shl1(n) == 2 ^ n

\* Claimed bit-lengths passed by the circuits (8 has 4 bits; 3 understates).
NumBitsArgs == {3, 4}

\* The body of the inner loop of RangeCheckTable::load (example6/table.rs):
\* write the tag and the value at the running offset, then advance it.
load6_body(lay, num_bits, value) ==
    LET tagged == table_assign_cell(lay, "num_bits", lay.offset, FFrom(num_bits))
    IN  IF tagged.error
        THEN tagged
        ELSE LET written == table_assign_cell(tagged, "value", tagged.offset,
                                              FFrom(value))
             IN  IF written.error
                 THEN written
                 ELSE [written EXCEPT !.offset = @ + 1]

\* The iterations lo..hi-1 of the inner loop "for value in lo..hi", in
\* order, returning at once on Err; halved to keep the evaluation shallow.
RECURSIVE load6_values(_, _, _, _)
load6_values(lo, hi, num_bits, lay) ==
    IF lo >= hi
    THEN lay
    ELSE IF hi = lo + 1
         THEN load6_body(lay, num_bits, lo)
         ELSE LET mid  == (lo + hi) \div 2
                  left == load6_values(lo, mid, num_bits, lay)
              IN  IF left.error
                  THEN left
                  ELSE load6_values(mid, hi, num_bits, left)

\* The outer loop "for num_bits in 1..=NUM_BITS" from num_bits on.
RECURSIVE load6_tiers(_, _)
load6_tiers(num_bits, lay) ==
    IF num_bits > LOOKUP_NUMBITS \/ lay.error
    THEN lay
    ELSE load6_tiers(num_bits + 1,
             load6_values(Shl1(num_bits - 1), Shl1(num_bits), num_bits, lay))

\* The block "Assign (num_bits = 1, value = 0)" at offset 0.
load6_zero_row(lay) ==
    LET tagged == table_assign_cell(lay, "num_bits", lay.offset, 1)
    IN  IF tagged.error
        THEN tagged
        ELSE LET written == table_assign_cell(tagged, "value", tagged.offset, 0)
             IN  IF written.error
                 THEN written
                 ELSE [written EXCEPT !.offset = @ + 1]

\* Mutant of load6: the zero row tagged with bit-length 0.
load6_zero_row_tag0(lay) ==
    LET tagged == table_assign_cell(lay, "num_bits", lay.offset, 0)
    IN  IF tagged.error
        THEN tagged
        ELSE LET written == table_assign_cell(tagged, "value", tagged.offset, 0)
             IN  IF written.error
                 THEN written
                 ELSE [written EXCEPT !.offset = @ + 1]

load6_tag0(lay) ==
    LET zero == load6_zero_row_tag0([lay EXCEPT !.offset = 0])
    IN  [(IF zero.error THEN zero ELSE load6_tiers(1, zero))
            EXCEPT !.loads = @ + 1]

\* Mutant of load6: the inner loop runs over lo..=hi.
RECURSIVE load6_tiers_inclusive(_, _)
load6_tiers_inclusive(num_bits, lay) ==
    IF num_bits > LOOKUP_NUMBITS \/ lay.error
    THEN lay
    ELSE load6_tiers_inclusive(num_bits + 1,
             load6_values(Shl1(num_bits - 1), Shl1(num_bits) + 1, num_bits, lay))

load6_inclusive(lay) ==
    LET zero == load6_zero_row([lay EXCEPT !.offset = 0])
    IN  [(IF zero.error THEN zero ELSE load6_tiers_inclusive(1, zero))
            EXCEPT !.loads = @ + 1]

\* RangeCheckTable::load of example6/table.rs.
load6(lay) ==
    LET zero == load6_zero_row([lay EXCEPT !.offset = 0])
    IN  [(IF zero.error THEN zero ELSE load6_tiers(1, zero))
            EXCEPT !.loads = @ + 1]

\* RangeCheckConfig::configure of example6: the polynomial gate and the
\* lookup of (q_lookup * value, q_lookup * num_bits) in the table columns
\* (value, num_bits).
configure6 ==
    [gates |->
        << create_gate("range check",
               with_selector(query_selector("q_range_check"),
                             << range_check(RANGE, query_advice("value")) >>)) >>,
     lookups |->
        << << [input |-> Product(query_selector("q_lookup"), query_advice("value")),
               table |-> "value"],
              [input |-> Product(query_selector("q_lookup"), query_advice("num_bits")),
               table |-> "num_bits"] >> >>]

\* Mutant of assign6: the assertion on the range comes last, after the region
\* has been assigned.
assign6_late_assert(lay, value, num_bits, range) ==
    LET assigned ==
            IF range < RANGE
            THEN assign_region(lay,
                     assign_advice(
                         assign_advice(enable(NewRegion("Assign value"),
                                              "q_range_check"),
                                       "num_bits", FFrom(num_bits)),
                         "value", value))
            ELSE assign_region(lay,
                     assign_advice(enable(NewRegion("Assign value for lookup range check"),
                                          "q_lookup"),
                                   "value", value))
    IN  IF ~(range <= LOOKUP_RANGE)
        THEN [assigned EXCEPT !.panicked = TRUE]
        ELSE assigned

\* Mutant of assign6: the polynomial branch writes the claimed bit-length
\* into the value column, which it then writes again.
assign6_same_column(lay, value, num_bits, range) ==
    IF ~(range <= LOOKUP_RANGE)
    THEN [lay EXCEPT !.panicked = TRUE]
    ELSE IF range < RANGE
         THEN assign_region(lay,
                  assign_advice(
                      assign_advice(enable(NewRegion("Assign value"), "q_range_check"),
                                    "value", FFrom(num_bits)),
                      "value", value))
         ELSE assign_region(lay,
                  assign_advice(enable(NewRegion("Assign value for lookup range check"),
                                       "q_lookup"),
                                "value", value))

\* RangeCheckConfig::assign of example6.  The polynomial branch writes the
\* num_bits cell and the value cell; the lookup branch writes the value cell.
assign6(lay, value, num_bits, range) ==
    IF ~(range <= LOOKUP_RANGE)
    THEN [lay EXCEPT !.panicked = TRUE]
    ELSE IF range < RANGE
         THEN assign_region(lay,
                  assign_advice(
                      assign_advice(enable(NewRegion("Assign value"), "q_range_check"),
                                    "num_bits", FFrom(num_bits)),
                      "value", value))
         ELSE assign_region(lay,
                  assign_advice(enable(NewRegion("Assign value for lookup range check"),
                                       "q_lookup"),
                                "value", value))

\* MyCircuit::synthesize of example6: both calls pass self.value.
synthesize6(c) ==
    load6(assign6(assign6(NewLayouter, c.value, 0, RANGE),
                  c.value, c.large_value_num_bits, LOOKUP_RANGE))

Init6 ==
    /\ pc = "new"
    /\ circuit \in [value : Field, large_value_num_bits : NumBitsArgs,
                    large_value : {FFrom(RANGE)}]
    /\ layouter = NewLayouter
    /\ failures = {}
    /\ meta = configure6

\* MockProver::run on MyCircuit.
Synthesize6 ==
    /\ pc = "new"
    /\ layouter' = synthesize6(circuit)
    /\ pc' = After(layouter', "done")
    /\ UNCHANGED <<circuit, failures, meta>>

\* A synthesis that calls assign with a claimed range of its own choice.
Assign6 ==
    /\ pc \in {"new", "calls"}
    /\ Len(layouter.regions) < MaxRegions
    /\ \E range \in Ranges :
          layouter' = assign6(layouter, circuit.value,
                              circuit.large_value_num_bits, range)
    /\ pc' = After(layouter', "calls")
    /\ UNCHANGED <<circuit, failures, meta>>

\* A synthesis that loads the table at a point of its own choice.
Load6 ==
    /\ pc \in {"new", "calls"}
    /\ layouter.loads < MaxLoads
    /\ layouter' = load6(layouter)
    /\ pc' = After(layouter', "calls")
    /\ UNCHANGED <<circuit, failures, meta>>

Verify6 ==
    /\ pc \in {"calls", "done"}
    /\ failures' = verify(configure6, layouter)
    /\ pc' = "verified"
    /\ UNCHANGED <<circuit, layouter, meta>>

Next6 == Synthesize6 \/ Assign6 \/ Load6 \/ Verify6

Spec6 == Init6 /\ [][Next6]_vars

\* The minimal bit-length of a value v >= 1: the b with 2^(b-1) <= v < 2^b.
BitLength(v) ==
    CHOOSE b \in 1..(LOOKUP_NUMBITS + 1) : Shl1(b - 1) <= v /\ v < Shl1(b)

\* C4: tiered-lookup range check, acceptance (the claim as stated): the
\* circuit that assigns value 8 with claimed bit-length 4 through the lookup
\* branch (range = LOOKUP_RANGE), loads the table and is verified, passes.
C4_TieredAccepts ==
    ( /\ pc = "verified"
      /\ layouter.loads = 1
      /\ circuit.value = 8
      /\ circuit.large_value_num_bits = 4
      /\ Len(layouter.regions) = 1
      /\ RowsWith("q_lookup") = {0} )
        => failures = {}

\* C5: tiered-lookup range check, rejection: with the table loaded, for the
\* circuit's value v in [1, 2^NUM_BITS) and every bit-length t other than the
\* minimal bit-length of v, no table row equals (t, v); and once verified,
\* every row with q_lookup enabled whose looked-up pair is such a (t, v) is
\* reported as a lookup violation.
C5_TieredRejects ==
    (layouter.loads = 1 /\ ~layouter.error) =>
        /\ (circuit.value \in 1..(Shl1(LOOKUP_NUMBITS) - 1)) =>
              \A t \in 0..(LOOKUP_NUMBITS + 1) :
                  (t # BitLength(circuit.value)) =>
                      \A i \in DOMAIN layouter.table :
                          ~( /\ layouter.table[i]["value"] = circuit.value
                             /\ layouter.table[i]["num_bits"] = t )
        /\ (pc = "verified") =>
              \A r \in RowsWith("q_lookup") :
                  LET v == CellValue(layouter.regions[r + 1], "value")
                      t == CellValue(layouter.regions[r + 1], "num_bits")
                  IN  (v \in 1..(Shl1(LOOKUP_NUMBITS) - 1) /\ t # BitLength(v))
                          => Failure("Lookup", "lookup", 0, "", r) \in failures

C5_Witness ==
    /\ pc = "verified"
    /\ layouter.loads = 1
    /\ circuit.large_value_num_bits = 3
    /\ \E r \in RowsWith("q_lookup") :
          /\ CellValue(layouter.regions[r + 1], "value") = 8
          /\ Failure("Lookup", "lookup", 0, "", r) \in failures

\* The (tag, value) pairs of the tiered enumeration.
ExpectedTiered ==
    { [num_bits |-> 1, value |-> 0] } \cup
    UNION { { [num_bits |-> b, value |-> v] :
                v \in Shl1(b - 1)..(Shl1(b) - 1) } : b \in 1..LOOKUP_NUMBITS }

\* C6: tiered table contents: after load, row 0 is (num_bits = 1, value = 0);
\* the rows are exactly the pairs (b, v) with b in 1..=NUM_BITS and v in
\* [2^(b-1), 2^b), plus the zero row, each in exactly one row; so every value
\* in [0, 2^NUM_BITS) appears in exactly one row.
C6_TieredTableContents ==
    (layouter.loads = 1) =>
        /\ ~layouter.error
        /\ layouter.table[1] = [num_bits |-> 1, value |-> 0]
        /\ { layouter.table[i] : i \in DOMAIN layouter.table } = ExpectedTiered
        /\ Len(layouter.table) = Cardinality(ExpectedTiered)
        /\ { layouter.table[i]["value"] : i \in DOMAIN layouter.table }
              = 0..(Shl1(LOOKUP_NUMBITS) - 1)
        /\ Len(layouter.table) = Shl1(LOOKUP_NUMBITS)

C6_Witness ==
    /\ layouter.loads = 1
    /\ \E i \in DOMAIN layouter.table :
          layouter.table[i] = [num_bits |-> LOOKUP_NUMBITS,
                               value |-> Shl1(LOOKUP_NUMBITS) - 1]

\* C7 as stated: the enumeration over the bit-widths yields 2^NUM_BITS rows
\* and the zero row is one more, the final offset being 2^NUM_BITS + 1.
C7_TableSizeAsStated ==
    (layouter.loads = 1) =>
        /\ Len(layouter.table) - 1 = Shl1(LOOKUP_NUMBITS)
        /\ layouter.offset = Shl1(LOOKUP_NUMBITS) + 1

\* C7, amended: the enumeration over the bit-widths 1..=NUM_BITS yields
\* 2^NUM_BITS - 1 rows; with the zero row the table has 2^NUM_BITS rows,
\* and the final offset reached by load is 2^NUM_BITS.
C7_TableSize ==
    (layouter.loads = 1) =>
        /\ ~layouter.error
        /\ Len(layouter.table) - 1 = Shl1(LOOKUP_NUMBITS) - 1
        /\ layouter.writes = 2 * Shl1(LOOKUP_NUMBITS)
        /\ layouter.offset = Shl1(LOOKUP_NUMBITS)

C7_Witness ==
    /\ layouter.loads = 1
    /\ layouter.offset = Shl1(LOOKUP_NUMBITS)
    /\ Len(layouter.table) = Shl1(LOOKUP_NUMBITS)

\* C16: the tiered variant witnesses the claimed bit-length (the claim as
\* stated): after the assign calls of a synthesis, which pass the circuit's
\* claimed bit-length, every row with q_lookup enabled has its value cell
\* and its num_bits cell assigned, the num_bits cell holding the claimed
\* bit-length, so that the lookup evaluates the pair (claimed bit-length,
\* value).
C16_WitnessesBitLength ==
    (pc = "calls") =>
        \A r \in RowsWith("q_lookup") :
            /\ IsAssigned(layouter.regions[r + 1], "value")
            /\ IsAssigned(layouter.regions[r + 1], "num_bits")
            /\ CellValue(layouter.regions[r + 1], "num_bits")
                  = circuit.large_value_num_bits
            /\ InputTuple(configure6.lookups[1], layouter.regions[r + 1])
                  = <<CellValue(layouter.regions[r + 1], "value"),
                      circuit.large_value_num_bits>>

\* C17: lookup on inactive rows of the tiered variant (the claim as stated):
\* with the table loaded, on every row without q_lookup (the rows of the
\* polynomial branch and the unused rows) the lookup input tuple is a row of
\* the table, and the verified circuit reports no lookup violation there.
C17_InactiveRows ==
    (layouter.loads = 1 /\ ~layouter.error) =>
        \A r \in Rows(layouter.regions) :
            ("q_lookup" \notin RowAt(layouter.regions, r).selectors) =>
                /\ InputTuple(configure6.lookups[1], RowAt(layouter.regions, r))
                      \in TableTuples(configure6.lookups[1], layouter.table)
                /\ (pc = "verified") =>
                      Failure("Lookup", "lookup", 0, "", r) \notin failures

---------------------------------------------------------------------------
(* Configuration of example6 under an instantiation of the const generics  *)
(* NUM_BITS and RANGE of its table.                                        *)

\* ConstraintSystem::default(), with the mark of a failed assertion.
NewConstraintSystem ==
    [advice |-> << >>, selectors |-> << >>, table_columns |-> << >>,
     gates |-> << >>, lookups |-> << >>, panicked |-> FALSE]

advice_column(cs, name) == [cs EXCEPT !.advice = Append(@, name)]

selector(cs, name) == [cs EXCEPT !.selectors = Append(@, name)]

complex_selector(cs, name) == [cs EXCEPT !.selectors = Append(@, name)]

lookup_table_column(cs, name) == [cs EXCEPT !.table_columns = Append(@, name)]

\* Mutant of table_configure6: the columns are allocated before the
\* assertion.
table_configure6_alloc_first(cs, NUM_BITS, TABLE_RANGE) ==
    LET allocated == lookup_table_column(lookup_table_column(cs, "value"),
                                         "num_bits")
    IN  IF Shl1(NUM_BITS) # TABLE_RANGE
        THEN [allocated EXCEPT !.panicked = TRUE]
        ELSE allocated

\* RangeCheckTable::configure of example6/table.rs:
\* assert_eq!(1 << NUM_BITS, RANGE), then the two lookup table columns.
table_configure6(cs, NUM_BITS, TABLE_RANGE) ==
    IF Shl1(NUM_BITS) # TABLE_RANGE
    THEN [cs EXCEPT !.panicked = TRUE]
    ELSE lookup_table_column(lookup_table_column(cs, "value"), "num_bits")

\* RangeCheckConfig::configure of example6: the two selectors, the table,
\* then the gate and the lookup (those of configure6).
range_check_configure6(cs, NUM_BITS, TABLE_RANGE) ==
    LET selectors == complex_selector(selector(cs, "q_range_check"), "q_lookup")
        table     == table_configure6(selectors, NUM_BITS, TABLE_RANGE)
    IN  IF table.panicked
        THEN table
        ELSE [table EXCEPT !.gates = configure6.gates,
                           !.lookups = configure6.lookups]

\* Circuit::configure of example6: the advice columns value and num_bits,
\* then RangeCheckConfig::configure.
circuit_configure6(NUM_BITS, TABLE_RANGE) ==
    range_check_configure6(
        advice_column(advice_column(NewConstraintSystem, "value"), "num_bits"),
        NUM_BITS, TABLE_RANGE)

InitConfigure6 ==
    /\ pc = "new"
    /\ circuit \in [NUM_BITS : 0..MaxNumBits, RANGE : 0..Shl1(MaxNumBits)]
    /\ layouter = NewLayouter
    /\ failures = {}
    /\ meta = NewConstraintSystem

\* Key generation calls Circuit::configure on a fresh constraint system.
Configure6 ==
    /\ pc = "new"
    /\ meta' = circuit_configure6(circuit.NUM_BITS, circuit.RANGE)
    /\ pc' = IF meta'.panicked THEN "panicked" ELSE "configured"
    /\ UNCHANGED <<circuit, layouter, failures>>

NextConfigure6 == Configure6

SpecConfigure6 == InitConfigure6 /\ [][NextConfigure6]_vars

\* C12: tiered table configuration error: configure fails exactly when
\* 2^NUM_BITS # RANGE, and then before any lookup table column is
\* allocated: the constraint system is as it was when the table's configure
\* was entered (the advice columns and the selectors, no table column, no
\* gate, no lookup); with 2^NUM_BITS = RANGE exactly the two table columns
\* value and num_bits are allocated.
C12_TableConfigure ==
    /\ (pc # "new") =>
          ((pc = "panicked") <=> (Shl1(circuit.NUM_BITS) # circuit.RANGE))
    /\ (pc = "panicked") =>
          meta = [NewConstraintSystem EXCEPT
                    !.advice = <<"value", "num_bits">>,
                    !.selectors = <<"q_range_check", "q_lookup">>,
                    !.panicked = TRUE]
    /\ (pc = "configured") =>
          /\ meta.table_columns = <<"value", "num_bits">>
          /\ Len(meta.gates) = 1
          /\ Len(meta.lookups) = 1

C12_Witness ==
    /\ pc = "panicked"
    /\ circuit = [NUM_BITS |-> 3, RANGE |-> 7]
    /\ meta.table_columns = << >>

---------------------------------------------------------------------------
(* Both lookup circuits: a run is a run of example5 or a run of example6.  *)

\* The circuit under test is the MyCircuit of example5 (the one of example6
\* carries large_value_num_bits).
Is5 == "large_value_num_bits" \notin DOMAIN circuit

Init56 == Init5 \/ Init6

Next56 == (Is5 /\ Next5) \/ (~Is5 /\ Next6)

Spec56 == Init56 /\ [][Next56]_vars

\* The table as one call of load on a fresh layouter writes it.
LoadedOnce ==
    IF Is5 THEN load5(NewLayouter).table ELSE load6(NewLayouter).table

\* C13: idempotent table load (the claim as stated): after load has been
\* called twice on the same table and layouter, the second call has
\* succeeded as well and the table contents are those of a single load, for
\* the flat and for the tiered table.
C13_IdempotentLoad ==
    (layouter.loads = 2) =>
        /\ ~layouter.error
        /\ layouter.table = LoadedOnce

\* Every row of the table is written: the flat table holds i at offset i
\* for i in 0..LOOKUP_RANGE, the tiered table the zero row and every pair
\* of the enumeration.
TableComplete ==
    IF Is5
    THEN /\ Len(layouter.table) = LOOKUP_RANGE
         /\ \A i \in 0..(LOOKUP_RANGE - 1) :
               layouter.table[i + 1] = [value |-> i]
    ELSE /\ Len(layouter.table) = Shl1(LOOKUP_NUMBITS)
         /\ { layouter.table[i] : i \in DOMAIN layouter.table } = ExpectedTiered

\* C14: load-before-check ordering: whenever synthesize of a lookup circuit
\* has returned, table.load has been called exactly once, after the two
\* assign calls (both regions are laid out), and has written every row of
\* the table without error; and the satisfiability check that follows
\* evaluates the lookups against that complete table.
C14_LoadBeforeCheck ==
    /\ [](pc = "done" =>
            /\ layouter.loads = 1
            /\ ~layouter.error
            /\ Len(layouter.regions) = 2
            /\ TableComplete)
    /\ [][(pc = "done" /\ pc' = "verified") =>
            /\ layouter' = layouter
            /\ layouter.loads = 1
            /\ TableComplete
            /\ failures' = verify(IF Is5 THEN configure5 ELSE configure6,
                                  layouter)]_vars

C14_Witness ==
    /\ pc = "verified"
    /\ Is5
    /\ layouter.loads = 1
    /\ Len(layouter.regions) = 2
    /\ RowsWith("q_lookup") = {0, 1}
    /\ TableComplete
    /\ failures = {}

\* The step is a call of assign with the claimed range.
AssignStep(range) ==
    IF Is5
    THEN Assign5 /\ layouter' = assign5(layouter, circuit.value, range)
    ELSE Assign6 /\ layouter' = assign6(layouter, circuit.value,
                                        circuit.large_value_num_bits, range)

\* The step opened one region; the region it opened.
Opened == Len(layouter'.regions) = Len(layouter.regions) + 1

NewRow == layouter'.regions[Len(layouter'.regions)]

\* The selector of the variant chosen for a claimed range.
VariantSelector(range) ==
    IF range < RANGE THEN "q_range_check" ELSE "q_lookup"

\* C11 as stated: every call of assign enables q_range_check alone when
\* range < RANGE and q_lookup alone otherwise, and the cap
\* range <= LOOKUP_RANGE is asserted at configuration time, so that no call
\* of assign raises it.
C11_AsStated ==
    [][ \A range \in Ranges :
          AssignStep(range) =>
              /\ ~layouter'.panicked
              /\ Opened
              /\ NewRow.selectors = {VariantSelector(range)} ]_vars

\* C11, amended: a call of assign with range <= LOOKUP_RANGE enables
\* q_range_check alone when range < RANGE and q_lookup alone otherwise
\* (range = RANGE included), never both on the row; the cap
\* range <= LOOKUP_RANGE is asserted by assign itself, at witness-assignment
\* time: the call with a larger range is the one that fails the assertion.
C11_VariantSelection ==
    [][ \A range \in Ranges :
          AssignStep(range) =>
              /\ layouter'.panicked <=> ~(range <= LOOKUP_RANGE)
              /\ (range <= LOOKUP_RANGE) =>
                    /\ Opened
                    /\ NewRow.selectors = {VariantSelector(range)} ]_vars

C11_Witness ==
    /\ pc = "calls"
    /\ ~layouter.panicked
    /\ Len(layouter.regions) = 2
    /\ layouter.regions[1].selectors = {"q_range_check"}
    /\ layouter.regions[2].selectors = {"q_lookup"}

\* C19: range cap on assign, in both lookup variants: a call of assign with
\* range > LOOKUP_RANGE fails the assertion and changes nothing else (no
\* region is opened, no selector enabled, no cell assigned, the table is
\* untouched); a call with range <= LOOKUP_RANGE leaves the earlier regions
\* as they were and opens exactly one region, on which exactly one selector
\* is enabled and the value cell holds the value passed.
C19_RangeCap ==
    [][ \A range \in Ranges :
          AssignStep(range) =>
              IF range > LOOKUP_RANGE
              THEN /\ pc' = "panicked"
                   /\ layouter' = [layouter EXCEPT !.panicked = TRUE]
              ELSE /\ pc' = "calls"
                   /\ ~layouter'.panicked
                   /\ Opened
                   /\ SubSeq(layouter'.regions, 1, Len(layouter.regions))
                         = layouter.regions
                   /\ Cardinality(NewRow.selectors) = 1
                   /\ IsAssigned(NewRow, "value")
                   /\ CellValue(NewRow, "value") = circuit.value
                   /\ layouter'.table = layouter.table ]_vars

C19_Witness ==
    /\ pc = "panicked"
    /\ layouter.panicked
    /\ ~layouter.error
    /\ Len(layouter.regions) = 1
    /\ layouter.loads = 1

---------------------------------------------------------------------------
(* example3: f(a, b, c) = if a == b {c} else {a - b}, using IsZeroChip.    *)

\* IsZeroChip::configure(meta, q_enable, value, value_inv): the indicator
\* expression 1 - value * value_inv, and the gate q_enable * value * indicator.
IsZeroChip_configure(q_enable, value, value_inv) ==
    LET is_zero_expr == Sub(Constant(1), Product(value, query_advice(value_inv)))
    IN  [value_inv |-> value_inv,
         is_zero_expr |-> is_zero_expr,
         gate |-> create_gate("is_zero",
                      << Product(q_enable, Product(value, is_zero_expr)) >>)]

\* IsZeroChip::assign(region, 0, value): the inverse of value, or zero.
IsZeroChip_assign(config, region, value) ==
    assign_advice(region, config.value_inv, FInvertOrZero(value))

\* Mutant of is_zero_value: a + b in place of a - b.
is_zero_value_sum ==
    Sum(query_advice("a"), query_advice("b"))

\* The value expression handed to IsZeroChip::configure.
is_zero_value ==
    Sub(query_advice("a"), query_advice("b"))

\* The IsZeroConfig a_equals_b of FunctionChip::configure.
a_equals_b ==
    IsZeroChip_configure(query_selector("selector"), is_zero_value, "value_inv")

\* Mutant of configure3: the second constraint is multiplied by a_equals_b
\* instead of 1 - a_equals_b.
configure3_same_factor ==
    LET s      == query_selector("selector")
        a      == query_advice("a")
        b      == query_advice("b")
        c      == query_advice("c")
        output == query_advice("output")
    IN  [gates |->
            << a_equals_b.gate,
               create_gate("f(a, b, c) = if a == b {c} else {a - b}",
                   << Product(s, Product(a_equals_b.is_zero_expr, Sub(output, c))),
                      Product(Product(s, a_equals_b.is_zero_expr),
                              Sub(output, Sub(a, b))) >>) >>,
         lookups |-> << >>]

\* FunctionChip::configure: the is_zero gate and the gate
\* "f(a, b, c) = if a == b {c} else {a - b}" with its two constraints.
configure3 ==
    LET s      == query_selector("selector")
        a      == query_advice("a")
        b      == query_advice("b")
        c      == query_advice("c")
        output == query_advice("output")
    IN  [gates |->
            << a_equals_b.gate,
               create_gate("f(a, b, c) = if a == b {c} else {a - b}",
                   << Product(s, Product(a_equals_b.is_zero_expr, Sub(output, c))),
                      Product(Product(s, Sub(Constant(1), a_equals_b.is_zero_expr)),
                              Sub(output, Sub(a, b))) >>) >>,
         lookups |-> << >>]

\* Mutant of assign3: the output is a - b on both branches.
assign3_no_branch(lay, a, b, c) ==
    LET r0 == enable(NewRegion("f(a, b, c) = if a == b {c} else {a - b}"), "selector")
        r1 == assign_advice(r0, "a", a)
        r2 == assign_advice(r1, "b", b)
        r3 == assign_advice(r2, "c", c)
        r4 == IsZeroChip_assign(a_equals_b, r3, FSub(a, b))
    IN  assign_region(lay, assign_advice(r4, "output", FSub(a, b)))

\* FunctionChip::assign.
assign3(lay, a, b, c) ==
    LET r0 == enable(NewRegion("f(a, b, c) = if a == b {c} else {a - b}"), "selector")
        r1 == assign_advice(r0, "a", a)
        r2 == assign_advice(r1, "b", b)
        r3 == assign_advice(r2, "c", c)
        r4 == IsZeroChip_assign(a_equals_b, r3, FSub(a, b))
        output == IF a = b THEN c ELSE FSub(a, b)
    IN  assign_region(lay, assign_advice(r4, "output", output))

\* FunctionCircuit::synthesize.
synthesize3(circ) == assign3(NewLayouter, circ.a, circ.b, circ.c)

\* Witness inputs: a over the whole field, b and c over the values of the
\* test and zero.
Init3 ==
    /\ pc = "new"
    /\ circuit \in [a : Field, b : {0, FFrom(10), FFrom(12)}, c : {0, FFrom(15)}]
    /\ layouter = NewLayouter
    /\ failures = {}
    /\ meta = configure3

Synthesize3 ==
    /\ pc = "new"
    /\ layouter' = synthesize3(circuit)
    /\ pc' = After(layouter', "done")
    /\ UNCHANGED <<circuit, failures, meta>>

Verify3 ==
    /\ pc = "done"
    /\ failures' = verify(configure3, layouter)
    /\ pc' = "verified"
    /\ UNCHANGED <<circuit, layouter, meta>>

Next3 == Synthesize3 \/ Verify3

Spec3 == Init3 /\ [][Next3]_vars

\* C9: conditional-function circuit: assign writes output = c when a = b and
\* a - b otherwise, and the witness satisfies both constraints of the gate
\* (and the is_zero gate): the report is empty.  (10, 12, 15) gives -2 and
\* (10, 10, 15) gives 15.
C9_FunctionChip ==
    (pc = "verified") =>
        /\ Len(layouter.regions) = 1
        /\ "selector" \in layouter.regions[1].selectors
        /\ IsAssigned(layouter.regions[1], "output")
        /\ CellValue(layouter.regions[1], "output")
              = (IF circuit.a = circuit.b
                 THEN circuit.c
                 ELSE (circuit.a - circuit.b) % Modulus)
        /\ failures = {}

C9_Witness ==
    /\ pc = "verified"
    /\ circuit = [a |-> 10, b |-> 12, c |-> 15]
    /\ CellValue(layouter.regions[1], "output") = Modulus - 2
    /\ failures = {}

\* A row of the function circuit with the selector enabled, a and b as in
\* the circuit, and an arbitrary value aux in the value_inv cell.
IsZeroRow(aux) ==
    assign_advice(
        assign_advice(
            assign_advice(enable(NewRegion("any"), "selector"), "a", circuit.a),
            "b", circuit.b),
        "value_inv", aux)

\* C10: IsZero soundness: on a row with the enable expression 1, whatever
\* aux is, if value * indicator = 0 with indicator = 1 - value * aux, then
\* the indicator is 1 when value = a - b is 0 and 0 otherwise; and the aux
\* assigned by the chip, invert(a - b) or 0, satisfies the constraints.
C10_IsZeroSoundness ==
    /\ \A aux \in Field :
          (Eval(a_equals_b.gate.polys[1], IsZeroRow(aux)) = 0)
              => Eval(a_equals_b.is_zero_expr, IsZeroRow(aux))
                    = (IF circuit.a = circuit.b THEN 1 ELSE 0)
    /\ (pc = "verified") =>
          /\ CellValue(layouter.regions[1], "value_inv")
                = FInvertOrZero((circuit.a - circuit.b) % Modulus)
          /\ Eval(a_equals_b.gate.polys[1], layouter.regions[1]) = 0
          /\ Eval(a_equals_b.is_zero_expr, layouter.regions[1])
                = (IF circuit.a = circuit.b THEN 1 ELSE 0)
          /\ \A f \in failures : f.name # "is_zero"

C10_Witness ==
    /\ pc = "verified"
    /\ circuit.a # circuit.b
    /\ CellValue(layouter.regions[1], "value_inv") # 0
    /\ Eval(a_equals_b.is_zero_expr, layouter.regions[1]) = 0
    /\ failures = {}

\* A row of the function circuit with the selector enabled, a, b and c as
\* in the circuit, aux in the value_inv cell and out in the output cell.
GateRow(aux, out) ==
    assign_advice(assign_advice(IsZeroRow(aux), "c", circuit.c), "output", out)

\* The inverse cell as the chip assigns it, and the values zero and one.
AuxSample ==
    {0, 1, FInvertOrZero((circuit.a - circuit.b) % Modulus)}

\* C18: conditional-function gate, mutual exclusion of branches: on an
\* enabled row on which the is_zero constraint holds, the indicator
\* a_equals_b is 0 or 1 and exactly one of a_equals_b and 1 - a_equals_b is
\* zero; the constraint carrying the zero factor vanishes for every output,
\* the other one holds for exactly one output; and the outputs that satisfy
\* both constraints are exactly c if a = b and a - b otherwise.
C18_GateBranches ==
    (pc = "verified") =>
        \A aux \in AuxSample :
            (Eval(configure3.gates[1].polys[1], IsZeroRow(aux)) = 0) =>
                LET ind      == Eval(a_equals_b.is_zero_expr, IsZeroRow(aux))
                    gate     == configure3.gates[2]
                    expected == IF circuit.a = circuit.b
                                THEN circuit.c
                                ELSE (circuit.a - circuit.b) % Modulus
                    Holds(i) == { out \in Field :
                                    Eval(gate.polys[i], GateRow(aux, out)) = 0 }
                IN  /\ ind \in {0, 1}
                    /\ (ind = 0) # (FSub(1, ind) = 0)
                    /\ (ind = 0) => (Holds(1) = Field /\ Holds(2) = {expected})
                    /\ (ind = 1) => (Holds(2) = Field /\ Holds(1) = {expected})
                    /\ Holds(1) \cap Holds(2) = {expected}

C18_Witness ==
    /\ pc = "verified"
    /\ circuit = [a |-> 10, b |-> 10, c |-> 15]
    /\ Eval(a_equals_b.is_zero_expr, layouter.regions[1]) = 1
    /\ CellValue(layouter.regions[1], "output") = 15
    /\ failures = {}

---------------------------------------------------------------------------
(* All the circuits that lay out regions: example3, example5, example6.    *)

\* The circuit under test is the FunctionCircuit of example3.
Is3 == "a" \in DOMAIN circuit

Init356 == Init3 \/ Init56

Next356 == (Is3 /\ Next3) \/ (~Is3 /\ Next56)

Spec356 == Init356 /\ [][Next356]_vars

\* The number of assign_advice calls that the regions laid out have made.
RECURSIVE AdviceWrites(_)
AdviceWrites(rs) ==
    IF rs = << >> THEN 0 ELSE Len(Head(rs).cells) + AdviceWrites(Tail(rs))

\* The (column, absolute row) cells written by the regions laid out.
WrittenCells(rs) ==
    UNION { { <<rs[r].cells[k][1], r - 1>> : k \in DOMAIN rs[r].cells } :
            r \in DOMAIN rs }

\* C15: no overwrite across regions: whatever assign calls a synthesis has
\* made, no call has hit a cell already written (no assignment error before
\* a second load), within every region each column is written at most once,
\* the writes are as many as the (column, absolute row) cells written, and
\* the regions that wrote the value column did so on pairwise distinct rows.
C15_NoOverwrite ==
    /\ (layouter.loads <= 1) => ~layouter.error
    /\ \A r \in DOMAIN layouter.regions :
          \A i, j \in DOMAIN layouter.regions[r].cells :
              (i # j) => layouter.regions[r].cells[i][1]
                            # layouter.regions[r].cells[j][1]
    /\ AdviceWrites(layouter.regions) = Cardinality(WrittenCells(layouter.regions))
    /\ Cardinality({ c \in WrittenCells(layouter.regions) : c[1] = "value" })
          = Cardinality({ r \in DOMAIN layouter.regions :
                            IsAssigned(layouter.regions[r], "value") })

C15_Witness ==
    /\ pc = "calls"
    /\ ~Is3
    /\ Len(layouter.regions) = 2
    /\ WrittenCells(layouter.regions) = { <<"value", 0>>, <<"value", 1>> }

====
